---- MODULE Spec2Model ----
(***************************************************************************)
(* TeTeX plugin (src/main.ts): the code-block processor `process` renders  *)
(* a TeX fragment through a remote service and caches the image in the     *)
(* vault under a path derived from the SHA-256 of the assembled document.  *)
(*                                                                         *)
(* Strings are sequences of tokens: a token is a whitespace character      *)
(* (" " or "\n") or a chunk of non-whitespace text.  Every `await` of      *)
(* `process` is a point where other invocations and the settings tab may   *)
(* run; an action is the awaited operation taking effect followed by the   *)
(* synchronous code up to the next `await`.                                *)
(***************************************************************************)
EXTENDS Integers, Sequences, FiniteSets, TLC

\* Total number of times the host calls process (bounds the run).
MaxInvocations == 2

\* Invocations of process that may be in flight at once.
Procs == {"p1", "p2"}

\* Fragments the host hands to process (source).
Fragments == { <<" ", "x=1", "\n">>, <<"y">> }

\* Values typed into the settings tab's Scale field.
Scales == { <<"125%">>, <<"100%">> }


----------------------------------------------------------------------------
(* JavaScript values *)

Undefined == [type |-> "undefined"]
False == [type |-> "boolean"]
Str(s) == [type |-> "string", value |-> s]
ArrayBuffer(b) == [type |-> "ArrayBuffer", bytes |-> b]

\* JavaScript truthiness: undefined, false and "" are falsy; objects are truthy.
Truthy(v) ==
  CASE v.type = "undefined" -> FALSE
    [] v.type = "boolean" -> FALSE
    [] v.type = "string" -> v.value # <<>>
    [] OTHER -> TRUE

\* String(v) as applied by `+` to a non-string operand.
StringOf(v) == IF v.type = "string" THEN v.value ELSE <<v.type>>

----------------------------------------------------------------------------
(* String helpers *)

IsSpace(c) == c \in {" ", "\n"}

RECURSIVE TrimStart(_)
TrimStart(s) ==
  IF s # <<>> /\ IsSpace(Head(s)) THEN TrimStart(Tail(s)) ELSE s

RECURSIVE TrimEnd(_)
TrimEnd(s) ==
  IF s # <<>> /\ IsSpace(s[Len(s)]) THEN TrimEnd(SubSeq(s, 1, Len(s) - 1)) ELSE s

\* String.prototype.trim
Trim(s) == TrimEnd(TrimStart(s))

\* Array.prototype.join
RECURSIVE Join(_, _)
Join(lines, sep) ==
  IF lines = <<>> THEN <<>>
  ELSE IF Len(lines) = 1 THEN lines[1]
  ELSE lines[1] \o sep \o Join(Tail(lines), sep)

----------------------------------------------------------------------------
(* Settings *)

DEFAULT_SETTINGS ==
  [ server |-> <<"https://tex.tools">>,
    apiPath |-> <<"/api/convert">>,
    header |-> << <<"\\documentclass{article}">>, <<"\\pagestyle{empty}">> >>,
    documentHeader |-> << <<"\\begin{document}">>,
                          <<"\\mathlig{->}{\\rightarrow}">>,
                          <<"\\mathlig{|-}{\\vdash}">>,
                          <<"\\mathlig{=>}{\\Rightarrow}">>,
                          <<"\\mathligson">> >>,
    documentFooter |-> << <<"\\end{document}">> >>,
    packages |-> << <<"\\usepackage{floatflt,amsmath,amssymb}">>,
                    <<"\\usepackage[ligature, inference]{semantic}">> >>,
    scale |-> <<"125%">>,
    texImageDirectory |-> "vault-subdirectory",
    markdownAttachmentSubdirectory |-> <<".images">> ]

----------------------------------------------------------------------------
(* Pure functions of the plugin *)

\* The tokens documents are made of; a token's position stands for its bytes.
Charset ==
  << " ", "\n", "x=1", "y",
     "\\documentclass{article}", "\\pagestyle{empty}",
     "\\begin{document}", "\\mathlig{->}{\\rightarrow}", "\\mathlig{|-}{\\vdash}",
     "\\mathlig{=>}{\\Rightarrow}", "\\mathligson", "\\end{document}",
     "\\usepackage{floatflt,amsmath,amssymb}",
     "\\usepackage[ligature, inference]{semantic}" >>

Code(c) == CHOOSE i \in 1..Len(Charset) : Charset[i] = c

\* Width of the digest in hex digits and the matching modulus (16^HexDigits).
HexDigits == 6
DigestModulus == 16777216

HexChars == << "0", "1", "2", "3", "4", "5", "6", "7",
               "8", "9", "a", "b", "c", "d", "e", "f" >>

\* The digest of a string: deterministic and of fixed width.  SHA-256 itself is
\* out of reach of TLC's integers; a multiplicative digest of the same shape stands
\* in for it (HashIsCollisionFree checks that it separates the documents used).
RECURSIVE Digest(_, _)
Digest(s, h) ==
  IF s = <<>> THEN h
  ELSE Digest(Tail(s), (h * 31 + Code(Head(s))) % DigestModulus)

\* digest('hex'): lowercase hex, fixed length.
RECURSIVE Hex(_, _)
Hex(n, digits) ==
  IF digits = 0 THEN <<>>
  ELSE Hex(n \div 16, digits - 1) \o <<HexChars[(n % 16) + 1]>>

generateHash(source) == Hex(Digest(source, 7), HexDigits)

\* generateTeXDocument: the sections and the trimmed fragment joined by newlines,
\* the result trimmed.
generateTeXDocument(cfg, fragment) ==
  Trim(Join(cfg.header \o cfg.packages \o cfg.documentHeader
            \o <<Trim(fragment)>> \o cfg.documentFooter, <<"\n">>))

\* The directory of process: the subdirectory plus "/" or the empty string.
Directory(cfg) ==
  IF cfg.texImageDirectory = "vault-subdirectory"
  THEN cfg.markdownAttachmentSubdirectory \o <<"/">>
  ELSE <<>>

\* const filename = directory + hash + ".svg"
Filename(dir, h) == dir \o h \o <<".svg">>

\* adapter.getResourcePath: the URL the host serves a vault path under.
getResourcePath(path) == <<"app://local/">> \o path

\* Plugin data an earlier session may have saved (saveSettings): the settings
\* with either exercised option of the TeX Image Directory dropdown (lines 291-300).
SavedSettings ==
  { [ DEFAULT_SETTINGS EXCEPT !.texImageDirectory = d ] :
      d \in { "vault-subdirectory", "vault" } }

\* loadSettings: Object.assign({}, DEFAULT_SETTINGS, await this.loadData());
\* saved data holds every field, nothing saved is null.
loadSettings(saved) == IF saved = <<>> THEN DEFAULT_SETTINGS ELSE saved[1]

----------------------------------------------------------------------------
(* State *)

VARIABLES
  settings,     \* this.settings
  folders,      \* the vault: folders that exist
  files,        \* the vault: path -> bytes of the binary files that exist
  pc,           \* per invocation: the await it is suspended at
  source,       \* per invocation: the fragment
  texDocument,  \* per invocation: const texDocument
  hash,         \* per invocation: const hash
  directory,    \* per invocation: const directory
  filename,     \* per invocation: const filename
  request,      \* per invocation: body of the convert POST
  result,       \* per invocation: const result
  url,          \* per invocation: address of the download GET
  data,         \* per invocation: const data
  el,           \* per invocation: children appended to el
  fault,        \* per invocation: the error process rejected with
  console,      \* per invocation: console.log output
  calls,        \* per invocation: storage and network operations, in order
  pred,         \* per invocation: invocations that had ended when it began
  creates,      \* the vault: path or folder -> number of successful creations
  invocations,  \* number of calls of process so far
  savedData     \* the host's plugin data store (saveData / loadData)

frame == <<source, texDocument, hash, directory, filename, request, result, url, data>>
vault == <<folders, files, creates>>
vars == <<settings, folders, files, pc, source, texDocument, hash, directory,
          filename, request, result, url, data, el, fault, console, calls, pred,
          creates, invocations, savedData>>

\* The vault root (directory ""): it always exists.
Root == <<>>

Ended(p) == pc[p] \in {"done", "rejected"}

Has(p, op) == \E i \in 1..Len(calls[p]) : calls[p][i] = op
Count(p, op) == Cardinality({i \in 1..Len(calls[p]) : calls[p][i] = op})
Hit(p) == Has(p, "exists(filename) -> true")
Miss(p) == Has(p, "exists(filename) -> false")
\* The invocation got past lines 81-83.
PassedDirectory(p) == Hit(p) \/ Miss(p)
Index(p, op) == CHOOSE i \in 1..Len(calls[p]) : calls[p][i] = op

Init ==
  /\ savedData \in {<<>>} \cup {<<saved>> : saved \in SavedSettings}
  /\ settings = loadSettings(savedData)
  /\ folders = {Root}
  /\ files = [f \in {} |-> <<>>]
  /\ creates = [d \in {} |-> 0]
  /\ pc = [p \in Procs |-> "idle"]
  /\ source = [p \in Procs |-> <<>>]
  /\ texDocument = [p \in Procs |-> <<>>]
  /\ hash = [p \in Procs |-> <<>>]
  /\ directory = [p \in Procs |-> <<>>]
  /\ filename = [p \in Procs |-> <<>>]
  /\ request = [p \in Procs |-> Undefined]
  /\ result = [p \in Procs |-> Undefined]
  /\ url = [p \in Procs |-> Undefined]
  /\ data = [p \in Procs |-> Undefined]
  /\ el = [p \in Procs |-> <<>>]
  /\ fault = [p \in Procs |-> Undefined]
  /\ console = [p \in Procs |-> <<>>]
  /\ calls = [p \in Procs |-> <<>>]
  /\ pred = [p \in Procs |-> {}]
  /\ invocations = 0

----------------------------------------------------------------------------
(* The remote service and the vault, as process sees them *)

\* Body of the convert POST (fetchImageURL).
ConvertBody(h, doc, cfg) ==
  [ hash |-> h, latexInput |-> doc, outputScale |-> cfg.scale, outputFormat |-> "SVG" ]

\* The reference under which the service keeps the image it rendered for a request.
ImageRef(body) == <<"r/">> \o body.hash \o <<"@">> \o body.outputScale \o <<".svg">>

\* response.json() of a convert response with an OK status: imageURL and error
\* are both optional (interface Result).
Payloads(body) ==
  { [ type |-> "object", imageURL |-> u, error |-> e ] :
      u \in { Undefined, Str(ImageRef(body)) },
      e \in { Undefined, Str(<<>>), Str(<<"syntax error">>) } }

\* The bytes the service answers a download with.
ServiceBody(address) == <<"bytes of">> \o address

\* One more successful creation of path k.
Created(k) ==
  IF k \in DOMAIN creates THEN [creates EXCEPT ![k] = @ + 1] ELSE (k :> 1) @@ creates

Append1(p, op) == [calls EXCEPT ![p] = Append(@, op)]
Append2(p, op1, op2) == [calls EXCEPT ![p] = @ \o <<op1, op2>>]

\* The promise process returned rejects with err: nothing after the await runs.
Reject(p, err) ==
  /\ pc' = [pc EXCEPT ![p] = "rejected"]
  /\ fault' = [fault EXCEPT ![p] = Str(<<err>>)]

----------------------------------------------------------------------------
(* process *)

\* Lines 74-81: the host calls process; it runs up to `await exists(directory)`.
process(p, fragment) ==
  /\ pc[p] \in {"idle", "done", "rejected"}
  /\ invocations < MaxInvocations
  /\ invocations' = invocations + 1
  /\ LET doc == generateTeXDocument(settings, fragment) IN
       /\ source' = [source EXCEPT ![p] = fragment]
       /\ texDocument' = [texDocument EXCEPT ![p] = doc]
       /\ hash' = [hash EXCEPT ![p] = generateHash(doc)]
  /\ directory' = [directory EXCEPT ![p] = Directory(settings)]
  /\ filename' = [filename EXCEPT ![p] = <<>>]
  /\ request' = [request EXCEPT ![p] = Undefined]
  /\ result' = [result EXCEPT ![p] = Undefined]
  /\ url' = [url EXCEPT ![p] = Undefined]
  /\ data' = [data EXCEPT ![p] = Undefined]
  /\ el' = [el EXCEPT ![p] = <<>>]
  /\ fault' = [fault EXCEPT ![p] = Undefined]
  /\ console' = [console EXCEPT ![p] = <<>>]
  /\ calls' = [calls EXCEPT ![p] = <<>>]
  /\ pred' = [q \in Procs |->
                IF q = p
                THEN {r \in Procs \ {p} : Ended(r) /\ PassedDirectory(r)}
                ELSE pred[q] \ {p}]
  /\ pc' = [pc EXCEPT ![p] = "exists(directory)"]
  /\ UNCHANGED <<settings, savedData, vault>>

\* ExistsDirectory without the existence test: createFolder is always called.
ExistsDirectoryAlwaysCreates(p) ==
  /\ pc[p] = "exists(directory)"
  /\ calls' = Append1(p, "exists(directory) -> false")
  /\ pc' = [pc EXCEPT ![p] = "createFolder"]
  /\ UNCHANGED <<settings, savedData, vault, frame, el, fault, console, pred, invocations>>

\* Line 81: exists(directory) resolves; line 82 or lines 85-87 follow.
ExistsDirectory(p) ==
  /\ pc[p] = "exists(directory)"
  /\ IF directory[p] \in folders
     THEN /\ calls' = Append1(p, "exists(directory) -> true")
          /\ filename' = [filename EXCEPT ![p] = Filename(directory[p], hash[p])]
          /\ pc' = [pc EXCEPT ![p] = "exists(filename)"]
     ELSE /\ calls' = Append1(p, "exists(directory) -> false")
          /\ pc' = [pc EXCEPT ![p] = "createFolder"]
          /\ UNCHANGED filename
  /\ UNCHANGED <<settings, savedData, vault, source, texDocument, hash, directory,
                 request, result, url, data, el, fault, console, pred, invocations>>

\* Line 82: vault.createFolder creates the folder, or throws when the folder
\* exists by now or the storage fails; lines 85-87 follow a success.
CreateFolder(p) ==
  /\ pc[p] = "createFolder"
  /\ calls' = Append1(p, "createFolder")
  /\ \E storage \in {"ok", "error"} :
       IF directory[p] \in folders
       THEN /\ Reject(p, "Folder already exists.")
            /\ UNCHANGED <<vault, filename>>
       ELSE IF storage = "error"
       THEN /\ Reject(p, "storage failure")
            /\ UNCHANGED <<vault, filename>>
       ELSE /\ folders' = folders \cup {directory[p]}
            /\ creates' = Created(directory[p])
            /\ filename' = [filename EXCEPT ![p] = Filename(directory[p], hash[p])]
            /\ pc' = [pc EXCEPT ![p] = "exists(filename)"]
            /\ UNCHANGED <<files, fault>>
  /\ UNCHANGED <<settings, savedData, source, texDocument, hash, directory,
                 request, result, url, data, el, console, pred, invocations>>

\* ExistsFilename without the existence test: the convert POST is always sent.
ExistsFilenameIgnoresHit(p) ==
  /\ pc[p] = "exists(filename)"
  /\ calls' = Append2(p, IF filename[p] \in DOMAIN files
                         THEN "exists(filename) -> true"
                         ELSE "exists(filename) -> false", "POST")
  /\ request' = [request EXCEPT ![p] = ConvertBody(hash[p], texDocument[p], settings)]
  /\ pc' = [pc EXCEPT ![p] = "fetchImageURL"]
  /\ UNCHANGED <<settings, savedData, vault, source, texDocument, hash, directory,
                 filename, result, url, data, el, fault, console, pred, invocations>>

\* Line 87: exists(filename) resolves.  On a hit line 105 is next; on a miss
\* fetchImageURL is called and sends the convert POST (lines 88, 120-129).
ExistsFilename(p) ==
  /\ pc[p] = "exists(filename)"
  /\ IF filename[p] \in DOMAIN files
     THEN /\ calls' = Append1(p, "exists(filename) -> true")
          /\ pc' = [pc EXCEPT ![p] = "renderImage"]
          /\ UNCHANGED request
     ELSE /\ calls' = Append2(p, "exists(filename) -> false", "POST")
          /\ request' = [request EXCEPT ![p] = ConvertBody(hash[p], texDocument[p], settings)]
          /\ pc' = [pc EXCEPT ![p] = "fetchImageURL"]
  /\ UNCHANGED <<settings, savedData, vault, source, texDocument, hash, directory,
                 filename, result, url, data, el, fault, console, pred, invocations>>

\* FetchImageURL without the test of result.error: every payload is downloaded.
FetchImageURLIgnoresError(p) ==
  /\ pc[p] = "fetchImageURL"
  /\ \E settled \in {"rejected", "not ok", "ok"}, json \in Payloads(request[p]) :
       IF settled = "rejected"
       THEN /\ Reject(p, "Failed to fetch")
            /\ calls' = Append1(p, "POST settled")
            /\ UNCHANGED <<result, url, console>>
       ELSE IF settled = "not ok"
       THEN /\ result' = [result EXCEPT ![p] = False]
            /\ console' = [console EXCEPT ![p] =
                             Append(@, "error: Unable to connect to server or server error.")]
            /\ calls' = Append1(p, "POST settled")
            /\ pc' = [pc EXCEPT ![p] = "renderImage"]
            /\ UNCHANGED <<url, fault>>
       ELSE /\ result' = [result EXCEPT ![p] = json]
            /\ IF FALSE
               THEN /\ calls' = Append1(p, "POST settled")
                    /\ pc' = [pc EXCEPT ![p] = "renderImage"]
                    /\ UNCHANGED url
               ELSE /\ calls' = Append2(p, "POST settled", "GET")
                    /\ url' = [url EXCEPT ![p] =
                                 Str(settings.server \o <<"/">> \o StringOf(json.imageURL))]
                    /\ pc' = [pc EXCEPT ![p] = "fetchImage"]
            /\ UNCHANGED <<fault, console>>
  /\ UNCHANGED <<settings, savedData, vault, source, texDocument, hash, directory,
                 filename, request, data, el, pred, invocations>>

\* Lines 120-134 and 90-102: the convert POST settles.  fetch rejects, or the
\* status is not OK (result is false), or the payload is parsed; a payload whose
\* error is falsy makes fetchImage send the download GET (lines 92, 139).
FetchImageURL(p) ==
  /\ pc[p] = "fetchImageURL"
  /\ \E settled \in {"rejected", "not ok", "ok"}, json \in Payloads(request[p]) :
       IF settled = "rejected"
       THEN /\ Reject(p, "Failed to fetch")
            /\ calls' = Append1(p, "POST settled")
            /\ UNCHANGED <<result, url, console>>
       ELSE IF settled = "not ok"
       THEN /\ result' = [result EXCEPT ![p] = False]
            /\ console' = [console EXCEPT ![p] =
                             Append(@, "error: Unable to connect to server or server error.")]
            /\ calls' = Append1(p, "POST settled")
            /\ pc' = [pc EXCEPT ![p] = "renderImage"]
            /\ UNCHANGED <<url, fault>>
       ELSE /\ result' = [result EXCEPT ![p] = json]
            /\ IF Truthy(json.error)
               THEN /\ calls' = Append1(p, "POST settled")
                    /\ pc' = [pc EXCEPT ![p] = "renderImage"]
                    /\ UNCHANGED url
               ELSE /\ calls' = Append2(p, "POST settled", "GET")
                    /\ url' = [url EXCEPT ![p] =
                                 Str(settings.server \o <<"/">> \o StringOf(json.imageURL))]
                    /\ pc' = [pc EXCEPT ![p] = "fetchImage"]
            /\ UNCHANGED <<fault, console>>
  /\ UNCHANGED <<settings, savedData, vault, source, texDocument, hash, directory,
                 filename, request, data, el, pred, invocations>>

\* Lines 139-145 and 94-98: the download GET settles.  fetch rejects, or the
\* status is not OK (data is false), or the body is read and createBinary is called.
FetchImage(p) ==
  /\ pc[p] = "fetchImage"
  /\ calls' = Append1(p, "GET settled")
  /\ \E response \in {"rejected", "not ok", "ok"} :
       IF response = "rejected"
       THEN /\ Reject(p, "Failed to fetch")
            /\ UNCHANGED <<data, console>>
       ELSE IF response = "not ok"
       THEN /\ data' = [data EXCEPT ![p] = False]
            /\ console' = [console EXCEPT ![p] = Append(@, "error: Unable to fetch image.")]
            /\ pc' = [pc EXCEPT ![p] = "renderImage"]
            /\ UNCHANGED fault
       ELSE /\ data' = [data EXCEPT ![p] = ArrayBuffer(ServiceBody(url[p].value))]
            /\ pc' = [pc EXCEPT ![p] = "createBinary"]
            /\ UNCHANGED <<fault, console>>
  /\ UNCHANGED <<settings, savedData, vault, source, texDocument, hash, directory,
                 filename, request, result, url, el, pred, invocations>>

\* CreateBinary that replaces the bytes of a file that exists (a write, not a create).
CreateBinaryOverwrites(p) ==
  /\ pc[p] = "createBinary"
  /\ calls' = Append1(p, "createBinary")
  /\ \E storage \in {"ok", "error"} :
       IF storage = "error"
       THEN /\ Reject(p, "storage failure")
            /\ UNCHANGED vault
       ELSE /\ files' = (filename[p] :> data[p].bytes) @@ files
            /\ creates' = Created(filename[p])
            /\ pc' = [pc EXCEPT ![p] = "renderImage"]
            /\ UNCHANGED <<folders, fault>>
  /\ UNCHANGED <<settings, savedData, frame, el, console, pred, invocations>>

\* CreateBinary that creates the file without the downloaded bytes.
CreateBinaryDropsBytes(p) ==
  /\ pc[p] = "createBinary"
  /\ calls' = Append1(p, "createBinary")
  /\ \E storage \in {"ok", "error"} :
       IF filename[p] \in DOMAIN files
       THEN /\ Reject(p, "File already exists.")
            /\ UNCHANGED vault
       ELSE IF storage = "error"
       THEN /\ Reject(p, "storage failure")
            /\ UNCHANGED vault
       ELSE /\ files' = (filename[p] :> <<>>) @@ files
            /\ creates' = Created(filename[p])
            /\ pc' = [pc EXCEPT ![p] = "renderImage"]
            /\ UNCHANGED <<folders, fault>>
  /\ UNCHANGED <<settings, savedData, frame, el, console, pred, invocations>>

\* Line 95: vault.createBinary creates the file with the bytes, or throws when
\* a file exists at the path by now or the storage fails.
CreateBinary(p) ==
  /\ pc[p] = "createBinary"
  /\ calls' = Append1(p, "createBinary")
  /\ \E storage \in {"ok", "error"} :
       IF filename[p] \in DOMAIN files
       THEN /\ Reject(p, "File already exists.")
            /\ UNCHANGED vault
       ELSE IF storage = "error"
       THEN /\ Reject(p, "storage failure")
            /\ UNCHANGED vault
       ELSE /\ files' = (filename[p] :> data[p].bytes) @@ files
            /\ creates' = Created(filename[p])
            /\ pc' = [pc EXCEPT ![p] = "renderImage"]
            /\ UNCHANGED <<folders, fault>>
  /\ UNCHANGED <<settings, savedData, frame, el, console, pred, invocations>>

\* Lines 105, 190-194: renderImage appends a div holding an img whose src is the
\* resource path of filename; process returns.
renderImage(p) ==
  /\ pc[p] = "renderImage"
  /\ el' = [el EXCEPT ![p] =
              Append(@, [ tag |-> "div",
                          children |-> << [ tag |-> "img",
                                            src |-> getResourcePath(filename[p]) ] >> ])]
  /\ pc' = [pc EXCEPT ![p] = "done"]
  /\ UNCHANGED <<settings, savedData, vault, frame, fault, console, calls, pred, invocations>>

----------------------------------------------------------------------------
(* Settings tab *)

\* Lines 284-287: Scale onChange.
ScaleOnChange(value) ==
  /\ settings' = [settings EXCEPT !.scale = value]
  /\ savedData' = <<settings'>>
  /\ UNCHANGED <<vault, pc, frame, el, fault, console, calls, pred, invocations>>

----------------------------------------------------------------------------

Next ==
  \/ \E p \in Procs, fragment \in Fragments : process(p, fragment)
  \/ \E p \in Procs : ExistsDirectory(p)
  \/ \E p \in Procs : CreateFolder(p)
  \/ \E p \in Procs : ExistsFilename(p)
  \/ \E p \in Procs : FetchImageURL(p)
  \/ \E p \in Procs : FetchImage(p)
  \/ \E p \in Procs : CreateBinary(p)
  \/ \E p \in Procs : renderImage(p)
  \/ \E value \in Scales : ScaleOnChange(value)

Spec == Init /\ [][Next]_vars

----------------------------------------------------------------------------
(* Properties *)

\* The children renderImage leaves in el for the invocation's filename.
ImageOf(p) ==
  << [ tag |-> "div",
       children |-> << [ tag |-> "img", src |-> <<"app://local/">> \o filename[p] ] >> ] >>

\* filename is directory + SHA-256 hex of the assembled document + ".svg".
PathIsDerived(p) ==
  filename[p] = directory[p] \o generateHash(texDocument[p]) \o <<".svg">>

\* The convert POST was answered with a payload that carries an artifact reference.
HasImageURL(p) == result[p].type = "object" /\ result[p].imageURL.type = "string"

\* The convert POST was answered with a payload that reports an error.
HasError(p) == result[p].type = "object" /\ Truthy(result[p].error)

\* The digest keeps the documents of the invocations apart.
HashIsCollisionFree ==
  \A p, q \in Procs :
    (pc[p] # "idle" /\ pc[q] # "idle" /\ texDocument[p] # texDocument[q])
      => hash[p] # hash[q]

\* C1: an invocation whose existence check finds the file at the derived path
\* sends no convert POST and no download GET, calls no createBinary, cannot
\* reject, and displays an img of that path, which still exists.
C1_CacheHitShortCircuit ==
  \A p \in Procs :
    Hit(p) =>
      /\ ~Has(p, "POST") /\ ~Has(p, "GET") /\ ~Has(p, "createBinary")
      /\ PathIsDerived(p)
      /\ filename[p] \in DOMAIN files
      /\ pc[p] \in {"renderImage", "done"}
      /\ (pc[p] = "done") => el[p] = ImageOf(p)

C1_Witness ==
  \E p \in Procs : Hit(p) /\ pc[p] = "done" /\ directory[p] # <<>>

\* C2: after a miss, a convert answer with an artifact reference and a
\* successful download: once createBinary has returned, the invocation has
\* called it exactly once, after both exchanges settled, and the derived path
\* holds exactly the downloaded bytes; before that it has written nothing; and
\* however the invocation ends, short of a storage failure, the derived path
\* holds an artifact that was created exactly once.
C2_CacheMissCompletion ==
  \A p \in Procs :
    (Miss(p) /\ HasImageURL(p) /\ data[p].type = "ArrayBuffer") =>
      /\ PathIsDerived(p)
      /\ (pc[p] = "createBinary") => ~Has(p, "createBinary")
      /\ (pc[p] \in {"renderImage", "done"}) =>
           /\ Count(p, "createBinary") = 1
           /\ Index(p, "POST settled") < Index(p, "GET settled")
           /\ Index(p, "GET settled") < Index(p, "createBinary")
           /\ filename[p] \in DOMAIN files
           /\ files[filename[p]] = data[p].bytes
           /\ data[p].bytes = <<"bytes of">> \o url[p].value
      /\ (Ended(p) /\ fault[p] # Str(<<"storage failure">>)) =>
           /\ filename[p] \in DOMAIN files
           /\ creates[filename[p]] = 1

C2_Witness ==
  \E p \in Procs :
    /\ Miss(p) /\ HasImageURL(p) /\ data[p].type = "ArrayBuffer"
    /\ pc[p] = "done"
    /\ directory[p] # <<>>

\* C3: an invocation whose convert answer carries an error description sends
\* no download GET and calls no createBinary, cannot reject, and displays an
\* img of the derived path.
C3_FailureContainment ==
  \A p \in Procs :
    HasError(p) =>
      /\ ~Has(p, "GET") /\ ~Has(p, "createBinary")
      /\ PathIsDerived(p)
      /\ pc[p] \in {"renderImage", "done"}
      /\ (pc[p] = "done") => el[p] = ImageOf(p)

C3_Witness ==
  \E p \in Procs :
    /\ HasError(p) /\ pc[p] = "done"
    /\ result[p].imageURL.type = "string"
    /\ filename[p] \notin DOMAIN files

\* C4: no failure makes process reject: an invocation that met a connectivity
\* failure, a service error, a download failure or a storage failure still
\* ends done, having written nothing and displayed the derived path.
C4_EveryFailureNonFatal ==
  \A p \in Procs :
    /\ pc[p] # "rejected"
    /\ (pc[p] = "done" /\ (result[p] = False \/ HasError(p) \/ data[p] = False)) =>
         /\ ~Has(p, "createBinary")
         /\ PathIsDerived(p)
         /\ el[p] = ImageOf(p)

\* C5: an invocation that has displayed while no artifact exists at its path
\* shows a failure indicator and no img.
C5_FailureDisplay ==
  \A p \in Procs :
    (pc[p] = "done" /\ filename[p] \notin DOMAIN files) =>
      \A i \in 1..Len(el[p]) :
        /\ el[p][i].tag = "div"
        /\ \A j \in 1..Len(el[p][i].children) : el[p][i].children[j].tag # "img"

\* C6: of two invocations that both missed on the same path, neither is
\* aborted by the other's write, and once both have ended after a download the
\* path holds the artifact.
C6_BenignSameKeyRace ==
  \A p, q \in Procs :
    (p # q /\ Miss(p) /\ Miss(q) /\ filename[p] = filename[q]) =>
      /\ fault[p] # Str(<<"File already exists.">>)
      /\ (pc[p] = "done" /\ pc[q] = "done"
            /\ data[p].type = "ArrayBuffer" /\ data[q].type = "ArrayBuffer") =>
           filename[p] \in DOMAIN files

\* C7: the directory exists whenever an invocation checks or writes a file in
\* it, a directory is created at most once, and an invocation that begins after
\* another one got past the directory step with the same directory finds the
\* directory and does not call createFolder.
C7_IdempotentDirectoryCreation ==
  /\ \A p \in Procs :
       (pc[p] \in {"exists(filename)", "createBinary"} \/ PassedDirectory(p))
         => directory[p] \in folders
  /\ \A d \in folders \ {Root} : creates[d] = 1
  /\ \A q \in Procs : \A p \in pred[q] :
       directory[p] = directory[q] =>
         /\ ~Has(q, "createFolder")
         /\ ~Has(q, "exists(directory) -> false")

C7_Witness ==
  \E q \in Procs : \E p \in pred[q] :
    /\ directory[p] = directory[q]
    /\ directory[q] # Root
    /\ Has(p, "createFolder")
    /\ Has(q, "exists(directory) -> true")
    /\ pc[q] = "done"

\* C8: two invocations with the same assembled document and directory have the
\* same path, and two invocations whose convert requests differ in the
\* document or in the scale have different paths.
C8_CacheKeyIdentity ==
  \A p, q \in Procs :
    /\ (filename[p] # <<>> /\ filename[q] # <<>>
          /\ texDocument[p] = texDocument[q] /\ directory[p] = directory[q])
         => filename[p] = filename[q]
    /\ (request[p] # Undefined /\ request[q] # Undefined
          /\ (request[p].latexInput # request[q].latexInput
                \/ request[p].outputScale # request[q].outputScale))
         => filename[p] # filename[q]

\* C9: a download GET is sent only for a convert answer that carries an
\* artifact reference, and nothing is written for an answer without one.
C9_DownloadOnlyWithImageURL ==
  \A p \in Procs :
    (Has(p, "GET") \/ Has(p, "createBinary")) => HasImageURL(p)

\* C10: a file that exists keeps its bytes in every step, and every file that
\* exists was created exactly once.
C10_ArtifactImmutability ==
  [][ /\ \A k \in DOMAIN files : k \in DOMAIN files' /\ files'[k] = files[k]
      /\ \A k \in DOMAIN files' : creates'[k] = 1 ]_vars

\* A create of different bytes met the artifact at its path and left it as it was.
C10_Witness ==
  \E p \in Procs :
    /\ fault[p] = Str(<<"File already exists.">>)
    /\ filename[p] \in DOMAIN files
    /\ files[filename[p]] # data[p].bytes

====
